---- MODULE Spec2Model ----
(***************************************************************************)
(* Model of silhouette-db's data-generation tools:                         *)
(*   data-generation/generate_graph.py            (generation path)        *)
(*   data-generation/partition_existing_graph.py  (re-partition path)      *)
(*                                                                         *)
(* Text is modelled as sequences of one-character strings, so that         *)
(* formatting an integer and parsing it back are two different operators.  *)
(* A file is the flat character sequence written to it.                    *)
(***************************************************************************)
EXTENDS Integers, Sequences, FiniteSets, TLC

VARIABLES
    pc,                 \* position of the running program
    err,                \* name of the exception that ended the run, or "none"
    hash_order,         \* the build's iteration order of a set
    num_vertices, args_num_edges, num_edges, num_workers, seed,
    custom_assignment,  \* worker_config.vertex_assignment as read
    global_graph,       \* args.global_graph given
    rng,                \* state of the process-global random generator
    drawn,              \* the current generate call has drawn from rng
    edges_set, edges,   \* generate_random_graph's locals
    vertex_assignment, partitioned,
    dir_created, files, global_file,
    results,            \* outcomes of finished generate_random_graph calls
    other_draws,        \* draws made by the rest of the process
    input_file,         \* content of the edge list file that is loaded
    graph_size, loaded, \* partition_graph's locals
    config_file,        \* "none" (no --config), "missing" or "exists"
    config_in, config_doc  \* configuration document before / now

vars == <<pc, err, hash_order, num_vertices, args_num_edges, num_edges,
          num_workers, seed, custom_assignment, global_graph, rng, drawn,
          edges_set, edges, vertex_assignment, partitioned, dir_created,
          files, global_file, results, other_draws, input_file, graph_size,
          loaded, config_file, config_in, config_doc>>

\* an optional integer is <<>> (None) or <<n>>
None == <<>>
Some(n) == <<n>>

----------------------------------------------------------------------------
(* Generic helpers *)

Min(a, b) == IF a < b THEN a ELSE b
Max(a, b) == IF a > b THEN a ELSE b

Range(s) == { s[i] : i \in 1..Len(s) }

Reverse(s) == [ i \in 1..Len(s) |-> s[Len(s) + 1 - i] ]

\* number of occurrences of e in the sequence s
Count(e, s) == Cardinality({ i \in 1..Len(s) : s[i] = e })

RECURSIVE Concat(_)
Concat(ss) == IF ss = <<>> THEN <<>> ELSE Head(ss) \o Concat(Tail(ss))

\* all sequences over S of length 0..n
SeqsUpTo(S, n) == UNION { [1..k -> S] : k \in 0..n }

\* Python's a % b for b # 0: the result has the sign of b
PyMod(a, b) == IF b > 0 THEN a % b ELSE 0 - ((0 - a) % (0 - b))

\* iteration order of a set whose elements were inserted in the order ins:
\* fixed by the build, a function of the insertion history
Iterate(ins) == IF hash_order = "insertion" THEN ins ELSE Reverse(ins)

----------------------------------------------------------------------------
(* Text: str(int), int(str), str.strip, str.split *)

Digits == <<"0", "1", "2", "3", "4", "5", "6", "7", "8", "9">>
Whitespace == {" ", "\t", "\n"}

IsDigit(c) == \E d \in 1..10 : Digits[d] = c
DigitVal(c) == (CHOOSE d \in 1..10 : Digits[d] = c) - 1

RECURSIVE NatStr(_)
NatStr(n) == IF n < 10 THEN <<Digits[n + 1]>>
             ELSE NatStr(n \div 10) \o <<Digits[(n % 10) + 1]>>

\* f"{n}" for an int n
IntStr(n) == IF n < 0 THEN <<"-">> \o NatStr(0 - n) ELSE NatStr(n)

\* s.strip()
RECURSIVE LStrip(_)
LStrip(s) == IF s # <<>> /\ Head(s) \in Whitespace THEN LStrip(Tail(s)) ELSE s
Strip(s) == Reverse(LStrip(Reverse(LStrip(s))))

\* s.split(): the maximal runs of non-whitespace characters
RECURSIVE SplitWs(_, _)
SplitWs(s, cur) ==
    IF s = <<>> THEN (IF cur = <<>> THEN <<>> ELSE <<cur>>)
    ELSE IF Head(s) \in Whitespace
         THEN (IF cur = <<>> THEN <<>> ELSE <<cur>>) \o SplitWs(Tail(s), <<>>)
         ELSE SplitWs(Tail(s), Append(cur, Head(s)))
Split(s) == SplitWs(s, <<>>)

\* s.split('-')[-1]: what follows the last '-', or all of s
RECURSIVE LastDashPart(_)
LastDashPart(s) ==
    IF \E i \in 1..Len(s) : s[i] = "-"
    THEN LastDashPart(Tail(s))
    ELSE s

RECURSIVE DigitsValue(_, _)
DigitsValue(s, acc) ==
    IF s = <<>> THEN acc
    ELSE IF Head(s) = "_" THEN DigitsValue(Tail(s), acc)
         ELSE DigitsValue(Tail(s), 10 * acc + DigitVal(Head(s)))

\* int(s): optional surrounding whitespace, an optional sign, then digits
\* that single underscores may separate.  ok = FALSE stands for ValueError.
PyInt(s) ==
    LET t     == Strip(s)
        signd == t # <<>> /\ t[1] \in {"+", "-"}
        body  == IF signd THEN Tail(t) ELSE t
        valid == /\ body # <<>>
                 /\ \A i \in 1..Len(body) : IsDigit(body[i]) \/ body[i] = "_"
                 /\ IsDigit(body[1]) /\ IsDigit(body[Len(body)])
                 /\ \A i \in 1..(Len(body) - 1) :
                        ~(body[i] = "_" /\ body[i + 1] = "_")
        mag   == DigitsValue(body, 0)
    IN  IF ~valid THEN [ok |-> FALSE, val |-> 0]
        ELSE [ok |-> TRUE,
              val |-> IF signd /\ t[1] = "-" THEN 0 - mag ELSE mag]

\* iterating a text file: the lines, each with its "\n" when it has one
RECURSIVE FileLines(_, _)
FileLines(s, cur) ==
    IF s = <<>> THEN (IF cur = <<>> THEN <<>> ELSE <<cur>>)
    ELSE IF Head(s) = "\n"
         THEN <<Append(cur, "\n")>> \o FileLines(Tail(s), <<>>)
         ELSE FileLines(Tail(s), Append(cur, Head(s)))

----------------------------------------------------------------------------
(* Edge File Writer: generate_graph.write_edge_file *)

\* faulty variant: the two vertices written in the wrong order
EdgeLineSwapped(e) == IntStr(e[2]) \o <<" ">> \o IntStr(e[1]) \o <<"\n">>

EdgeLine(e) == IntStr(e[1]) \o <<" ">> \o IntStr(e[2]) \o <<"\n">>

write_edge_file(es) == Concat([ i \in 1..Len(es) |-> EdgeLine(es[i]) ])

----------------------------------------------------------------------------
(* Graph Loader: partition_existing_graph.load_graph_from_file             *)
(* adjacency_dict is kept as the sequence of its keys in insertion order   *)
(* and, per key, the neighbours in the order they were first added.        *)

EmptyLoad == [keys |-> <<>>, nbrs |-> <<>>, max_vertex |-> -1, total_edges |-> 0]

\* adjacency_dict[u].add(v)
AdjAdd(acc, u, v) ==
    IF \E i \in 1..Len(acc.keys) : acc.keys[i] = u
    THEN LET i == CHOOSE j \in 1..Len(acc.keys) : acc.keys[j] = u
         IN  IF v \in Range(acc.nbrs[i]) THEN acc
             ELSE [acc EXCEPT !.nbrs[i] = Append(@, v)]
    ELSE [acc EXCEPT !.keys = Append(@, u), !.nbrs = Append(@, <<v>>)]

\* one iteration of the loop over the file's lines (lines 63-85)
LoadLine(acc, raw) ==
    LET line  == Strip(raw)
        parts == Split(line)
    IN  IF line = <<>> \/ line[1] = "#" THEN acc
        ELSE IF Len(parts) < 2 THEN acc
        ELSE LET pu == PyInt(parts[1])
                 pv == PyInt(parts[2])
             IN  IF ~pu.ok \/ ~pv.ok THEN acc
                 ELSE LET a == AdjAdd(acc, pu.val, pv.val)
                      IN  [a EXCEPT
                             !.max_vertex = Max(Max(acc.max_vertex, pu.val), pv.val),
                             !.total_edges = @ + 1]

RECURSIVE LoadLines(_, _)
LoadLines(acc, lines) ==
    IF lines = <<>> THEN acc
    ELSE LoadLines(LoadLine(acc, Head(lines)), Tail(lines))

\* returns (adjacency_dict, max_vertex + 1, total_edges)
load_graph_from_file(content) ==
    LET acc == LoadLines(EmptyLoad, FileLines(content, <<>>))
    IN  [keys |-> acc.keys, nbrs |-> acc.nbrs,
         size |-> acc.max_vertex + 1, total_edges |-> acc.total_edges]

\* the ordered edges of a loaded graph, as
\* "for vertex_id, neighbors in adjacency_dict.items(): for neighbor in neighbors"
\* visits them
AdjEdges(g) ==
    Concat([ i \in 1..Len(g.keys) |->
               LET ns == Iterate(g.nbrs[i])
               IN  [ j \in 1..Len(ns) |-> <<g.keys[i], ns[j]>> ] ])

----------------------------------------------------------------------------
(* Configuration document: the value yaml.safe_load returns.  Every value  *)
(* is a record [t, s, m]: t is "null", "str", "int" or "map"; s the text   *)
(* of a scalar; m the entries of a mapping, keyed by text.                 *)

NoEntries == [k \in {} |-> 0]
YNull == [t |-> "null", s |-> <<>>, m |-> NoEntries]
YStr(text) == [t |-> "str", s |-> text, m |-> NoEntries]
YInt(n) == [t |-> "int", s |-> IntStr(n), m |-> NoEntries]
YMap(entries) == [t |-> "map", s |-> <<>>, m |-> entries]

\* d[k] = v on a dict
MapSet(m, k, v) == [x \in (DOMAIN m) \cup {k} |-> IF x = k THEN v ELSE m[x]]

K_worker_config == <<"w", "c">>
K_vertex_assignment == <<"v", "a">>
K_num_workers == <<"n", "w">>
K_graph_config == <<"g", "c">>
K_foo == <<"f", "o", "o">>
K_extra == <<"x">>

WorkerLabel(i) == <<"w", "o", "r", "k", "e", "r", "-">> \o IntStr(i)

----------------------------------------------------------------------------
(* Re-partition path: partition_existing_graph.partition_graph *)

\* calculate_workloads(n, num_workers); its result is used by nothing, but
\* n // 0 raises
calculate_workloads(n, nw) ==
    IF nw = 0 THEN [err |-> "ZeroDivisionError", workloads |-> <<>>]
    ELSE LET extra == PyMod(n, nw)
             chunk == IF nw > 0 THEN (n - extra) \div nw
                      ELSE (extra - n) \div (0 - nw)
             sizes == [ p \in 1..Max(nw, 0) |->
                          IF p = nw THEN chunk + extra ELSE chunk ]
         IN  [err |-> "none", workloads |-> sizes]

\* partitioned_edges[w].append(e) on a defaultdict(list)
BucketAppend(b, w, e) ==
    IF w \in DOMAIN b THEN [b EXCEPT ![w] = Append(@, e)]
    ELSE [x \in (DOMAIN b) \cup {w} |-> IF x = w THEN <<e>> ELSE b[x]]

\* partitioned_edges[w] on a defaultdict(list)
BucketGet(b, w) == IF w \in DOMAIN b THEN b[w] ELSE <<>>

NoBuckets == [w \in {} |-> <<>>]

\* faulty variant: the mirrored edge is not emitted
PlaceForwardOnly(b, e, nw) == BucketAppend(b, PyMod(e[1], nw), e)

\* faulty variant: the mirrored edge put into the bucket of the forward edge
PlaceBothSameBucket(b, e, nw) ==
    BucketAppend(BucketAppend(b, PyMod(e[1], nw), e),
                 PyMod(e[1], nw), <<e[2], e[1]>>)

\* the body of the inner loop (lines 134-141) for one edge (vertex_id, neighbor)
PlaceBothDirections(b, e, nw) ==
    BucketAppend(BucketAppend(b, PyMod(e[1], nw), e),
                 PyMod(e[2], nw), <<e[2], e[1]>>)

RECURSIVE PlaceAll(_, _, _)
PlaceAll(b, es, nw) ==
    IF es = <<>> THEN b
    ELSE PlaceAll(PlaceBothDirections(b, Head(es), nw), Tail(es), nw)

\* lines 107-124: load, graph size, workloads, output directory
PartLoad ==
    /\ pc = "part_start"
    /\ LET g  == load_graph_from_file(input_file)
           gs == IF graph_size = None THEN g.size ELSE graph_size[1]
           w  == calculate_workloads(gs, num_workers)
       IN  /\ loaded' = g
           /\ graph_size' = Some(gs)
           /\ IF w.err # "none"
              THEN pc' = "crashed" /\ err' = w.err /\ dir_created' = dir_created
              ELSE pc' = "part_edges" /\ err' = err /\ dir_created' = TRUE
    /\ UNCHANGED <<hash_order, num_vertices, args_num_edges, num_edges,
                   num_workers, seed, custom_assignment, global_graph, rng,
                   drawn, edges_set, edges, vertex_assignment, partitioned,
                   files, global_file, results, other_draws, input_file,
                   config_file, config_in, config_doc>>

\* lines 126-141: every loaded edge and its mirror into the buckets
PartEdges ==
    /\ pc = "part_edges"
    /\ partitioned' = PlaceAll(NoBuckets, AdjEdges(loaded), num_workers)
    /\ pc' = IF 0 < num_workers THEN "part_write" ELSE "part_publish"
    /\ UNCHANGED <<err, hash_order, num_vertices, args_num_edges, num_edges,
                   num_workers, seed, custom_assignment, global_graph, rng,
                   drawn, edges_set, edges, vertex_assignment,
                   dir_created, files, global_file, results, other_draws,
                   input_file, graph_size, loaded, config_file, config_in,
                   config_doc>>

\* lines 145-157: one iteration of the loop over range(num_workers);
\* files[k] is the content of "<k>.txt", worker_idx = Len(files)
PartWrite ==
    /\ pc = "part_write"
    /\ Len(files) < num_workers
    /\ files' = Append(files, write_edge_file(BucketGet(partitioned, Len(files))))
    /\ pc' = IF Len(files) + 1 < num_workers THEN "part_write" ELSE "part_publish"
    /\ UNCHANGED <<err, hash_order, num_vertices, args_num_edges, num_edges,
                   num_workers, seed, custom_assignment, global_graph, rng,
                   drawn, edges_set, edges, vertex_assignment, partitioned,
                   dir_created, global_file, results, other_draws,
                   input_file, graph_size, loaded, config_file, config_in,
                   config_doc>>

\* lines 163-166: str(vertex_id) -> "worker-<vertex_id % num_workers>"
PublishedAssignment(gs, nw) ==
    [k \in { IntStr(v) : v \in 0..(gs - 1) } |->
        LET v == CHOOSE x \in 0..(gs - 1) : IntStr(x) = k
        IN  YStr(WorkerLabel(PyMod(v, nw)))]

\* faulty variant: worker_config replaced as a whole instead of updated in place
PatchConfigReplace(doc, va, nw) ==
    IF doc.t # "map" THEN [err |-> "TypeError", doc |-> doc]
    ELSE LET wc == [k \in {K_vertex_assignment, K_num_workers} |->
                      IF k = K_num_workers THEN YInt(nw) ELSE YMap(va)]
         IN  [err |-> "none",
              doc |-> YMap(MapSet(doc.m, K_worker_config, YMap(wc)))]

\* lines 177-180 on the loaded document; err = "TypeError" when the document
\* or its worker_config is not a mapping
PatchConfig(doc, va, nw) ==
    IF doc.t # "map" THEN [err |-> "TypeError", doc |-> doc]
    ELSE LET d1 == IF K_worker_config \in DOMAIN doc.m THEN doc.m
                   ELSE MapSet(doc.m, K_worker_config, YMap(NoEntries))
             wc == d1[K_worker_config]
         IN  IF wc.t # "map" THEN [err |-> "TypeError", doc |-> doc]
             ELSE LET wc1 == MapSet(wc.m, K_vertex_assignment, YMap(va))
                      wc2 == MapSet(wc1, K_num_workers, YInt(nw))
                  IN  [err |-> "none",
                       doc |-> YMap(MapSet(d1, K_worker_config, YMap(wc2)))]

\* lines 162-186: the published assignment and the update of the document
PartPublish ==
    /\ pc = "part_publish"
    /\ LET va == PublishedAssignment(graph_size[1], num_workers)
       IN  /\ vertex_assignment' = va
           /\ IF config_file = "exists"
              THEN LET r == PatchConfig(config_doc, va, num_workers)
                   IN  IF r.err # "none"
                       THEN pc' = "crashed" /\ err' = r.err
                            /\ config_doc' = config_doc
                       ELSE pc' = "done" /\ err' = err /\ config_doc' = r.doc
              ELSE pc' = "done" /\ err' = err /\ config_doc' = config_doc
    /\ UNCHANGED <<hash_order, num_vertices, args_num_edges, num_edges,
                   num_workers, seed, custom_assignment, global_graph, rng,
                   drawn, edges_set, edges, partitioned,
                   dir_created, files, global_file, results, other_draws,
                   input_file, graph_size, loaded, config_file, config_in>>

NextPartition == PartLoad \/ PartEdges \/ PartWrite \/ PartPublish

----------------------------------------------------------------------------
(* The process-global random generator of Python's random module, as a     *)
(* small deterministic generator: seeding fixes the state, every draw is a *)
(* function of the state and advances it.                                  *)

RngStates == 17

\* random.seed(s)
SeedState(s) == s % RngStates

NextRng(r) == (5 * r + 3) % RngStates

\* the value random.randint(0, n - 1) returns from state r, for n >= 1
RandBelow(r, n) == r % n

\* faulty variant: the seed is never applied
SeededNever(r, sd) == r

\* lines 29-30: if seed is not None: random.seed(seed)
Seeded(r, sd) == IF sd # None THEN SeedState(sd[1]) ELSE r

----------------------------------------------------------------------------
(* EdgeSet Generator: generate_graph.generate_random_graph *)

\* faulty variant: the division by two forgotten
max_possible_ordered(nv) == nv * (nv - 1)

\* line 34
max_possible_edges(nv) == (nv * (nv - 1)) \div 2

\* faulty variant: the pair kept as drawn
EdgeAsDrawn(u, v) == <<u, v>>

\* line 44: smaller vertex first
CanonicalEdge(u, v) == <<Min(u, v), Max(u, v)>>

\* edges_set.add(e): the elements in the order of their first insertion
SetAdd(ins, e) == IF e \in Range(ins) THEN ins ELSE Append(ins, e)

\* lines 48-51: each pair of the set, followed by its reverse
RECURSIVE ExpandBoth(_)
ExpandBoth(ps) ==
    IF ps = <<>> THEN <<>>
    ELSE <<Head(ps), <<Head(ps)[2], Head(ps)[1]>>>> \o ExpandBoth(Tail(ps))

genFrame == <<hash_order, num_vertices, args_num_edges, num_edges, num_workers,
              seed, custom_assignment, global_graph, vertex_assignment,
              partitioned, dir_created, files, global_file, results,
              other_draws, input_file, graph_size, loaded, config_file,
              config_in, config_doc>>

\* lines 29-37: seed, empty set, capacity check
GenStart ==
    /\ pc = "gen_start"
    /\ rng' = Seeded(rng, seed)
    /\ edges_set' = <<>>
    /\ edges' = <<>>
    /\ drawn' = FALSE
    /\ IF num_edges > max_possible_edges(num_vertices)
       THEN pc' = "gen_raised" /\ err' = "CapacityError"
       ELSE pc' = "gen_loop" /\ err' = err
    /\ UNCHANGED genFrame

\* lines 39-45: one iteration of the rejection sampling loop; randint raises
\* ValueError (empty range) when num_vertices - 1 < 0
GenDraw ==
    /\ pc = "gen_loop"
    /\ Len(edges_set) < num_edges
    /\ IF num_vertices < 1
       THEN /\ pc' = "gen_raised" /\ err' = "EmptyRange"
            /\ UNCHANGED <<rng, drawn, edges_set>>
       ELSE LET r1 == NextRng(rng)
                r2 == NextRng(r1)
                u  == RandBelow(r1, num_vertices)
                v  == RandBelow(r2, num_vertices)
            IN  /\ rng' = r2
                /\ drawn' = TRUE
                /\ edges_set' = IF u # v THEN SetAdd(edges_set, CanonicalEdge(u, v))
                                ELSE edges_set
                /\ pc' = pc /\ err' = err
    /\ UNCHANGED edges
    /\ UNCHANGED genFrame

\* lines 47-53: the list of both directions, in the set's iteration order
GenExpand ==
    /\ pc = "gen_loop"
    /\ ~(Len(edges_set) < num_edges)
    /\ edges' = ExpandBoth(Iterate(edges_set))
    /\ pc' = "gen_returned"
    /\ UNCHANGED <<err, rng, drawn, edges_set>>
    /\ UNCHANGED genFrame

----------------------------------------------------------------------------
(* Assignment Resolver: generate_graph.assign_vertices                     *)
(* A key of a YAML mapping is an int or a str: [t, s] with s its text.     *)
(* The assignment is a dict over such keys.                                *)

IntKey(n) == [t |-> "int", s |-> IntStr(n)]
StrKey(text) == [t |-> "str", s |-> text]

\* lines 75-78 for one label: the worker index the override yields, if any
OverrideIndex(label, nw) ==
    IF label.t # "str" THEN [err |-> "AttributeError", ok |-> FALSE, idx |-> 0]
    ELSE LET p == PyInt(LastDashPart(label.s))
         IN  [err |-> "none",
              ok  |-> p.ok /\ 0 <= p.val /\ p.val < nw,
              idx |-> p.val]

\* lines 69-87
assign_vertices(nv, nw, custom) ==
    LET keys  == DOMAIN custom
        valid == { k \in keys : OverrideIndex(custom[k], nw).ok }
        fill  == { IntKey(v) : v \in 0..(nv - 1) } \ valid
    IN  IF \E k \in keys : OverrideIndex(custom[k], nw).err # "none"
        THEN [err |-> "AttributeError", assignment |-> NoEntries]
        ELSE IF fill # {} /\ nw = 0
        THEN [err |-> "ZeroDivisionError", assignment |-> NoEntries]
        ELSE [err |-> "none",
              assignment |->
                 [k \in valid \cup fill |->
                    IF k \in valid THEN OverrideIndex(custom[k], nw).idx
                    ELSE LET v == CHOOSE x \in 0..(nv - 1) : IntKey(x) = k
                         IN  PyMod(v, nw)]]

----------------------------------------------------------------------------
(* Partitioner: generate_graph.partition_edges *)

RECURSIVE PlaceByKey(_, _, _, _)
\* lines 107-110 with the vertex at position pos of the edge as the owner
PlaceByKey(b, es, va, pos) ==
    IF es = <<>> THEN [err |-> "none", buckets |-> b]
    ELSE LET e == Head(es)
             k == IntKey(e[pos])
         IN  IF k \notin DOMAIN va \/ va[k] \notin DOMAIN b
             THEN [err |-> "KeyError", buckets |-> b]
             ELSE PlaceByKey([b EXCEPT ![va[k]] = Append(@, e)], Tail(es), va, pos)

\* faulty variant: the edge given to the owner of its target vertex
partition_by_target(es, va, nw) ==
    PlaceByKey([i \in 0..(nw - 1) |-> <<>>], es, va, 2)

\* lines 105-112
partition_edges(es, va, nw) ==
    PlaceByKey([i \in 0..(nw - 1) |-> <<>>], es, va, 1)

----------------------------------------------------------------------------
(* Generation path: generate_graph.main, from the choice of num_edges on *)

mainFrame == <<hash_order, num_vertices, args_num_edges, num_workers, seed,
               custom_assignment, global_graph, rng, drawn, edges_set, edges,
               results, other_draws, input_file, graph_size, loaded,
               config_file, config_in, config_doc>>

\* lines 195-205: num_edges from --num-edges when given and not 0, else
\* 2 * num_vertices; then the call of generate_random_graph
MainStart ==
    /\ pc = "main_start"
    /\ num_edges' = IF args_num_edges # None /\ args_num_edges[1] # 0
                    THEN args_num_edges[1] ELSE num_vertices * 2
    /\ pc' = "gen_start"
    /\ UNCHANGED <<err, vertex_assignment, partitioned, dir_created, files,
                   global_file>>
    /\ UNCHANGED mainFrame

\* line 209
MainAssign ==
    /\ pc = "gen_returned"
    /\ LET r == assign_vertices(num_vertices, num_workers, custom_assignment)
       IN  IF r.err # "none"
           THEN pc' = "crashed" /\ err' = r.err
                /\ vertex_assignment' = vertex_assignment
           ELSE pc' = "main_partition" /\ err' = err
                /\ vertex_assignment' = r.assignment
    /\ UNCHANGED <<num_edges, partitioned, dir_created, files, global_file>>
    /\ UNCHANGED mainFrame

\* line 221
MainPartition ==
    /\ pc = "main_partition"
    /\ LET r == partition_edges(edges, vertex_assignment, num_workers)
       IN  IF r.err # "none"
           THEN pc' = "crashed" /\ err' = r.err /\ partitioned' = partitioned
           ELSE pc' = "main_mkdir" /\ err' = err /\ partitioned' = r.buckets
    /\ UNCHANGED <<num_edges, vertex_assignment, dir_created, files, global_file>>
    /\ UNCHANGED mainFrame

\* lines 224-225
MainMkdir ==
    /\ pc = "main_mkdir"
    /\ dir_created' = TRUE
    /\ pc' = IF 0 < num_workers THEN "main_write" ELSE "main_global"
    /\ UNCHANGED <<err, num_edges, vertex_assignment, partitioned, files,
                   global_file>>
    /\ UNCHANGED mainFrame

\* lines 229-233: one iteration; files[k] is the content of "<k>.txt"
MainWrite ==
    /\ pc = "main_write"
    /\ Len(files) < num_workers
    /\ files' = Append(files, write_edge_file(partitioned[Len(files)]))
    /\ pc' = IF Len(files) + 1 < num_workers THEN "main_write" ELSE "main_global"
    /\ UNCHANGED <<err, num_edges, vertex_assignment, partitioned, dir_created,
                   global_file>>
    /\ UNCHANGED mainFrame

\* lines 236-241
MainGlobal ==
    /\ pc = "main_global"
    /\ global_file' = IF global_graph THEN <<write_edge_file(edges)>> ELSE global_file
    /\ pc' = "done"
    /\ UNCHANGED <<err, num_edges, vertex_assignment, partitioned, dir_created,
                   files>>
    /\ UNCHANGED mainFrame

NextMain ==
    \/ MainStart \/ GenStart \/ GenDraw \/ GenExpand
    \/ MainAssign \/ MainPartition \/ MainMkdir \/ MainWrite \/ MainGlobal

----------------------------------------------------------------------------
(* Inputs *)

MaxWorkers == 3
MaxNegWorkers == 1
WorkerCounts == (0 - MaxNegWorkers)..MaxWorkers

\* values of the variables a program does not use
IdleButEdges ==
    /\ err = "none"
    /\ num_vertices = 0 /\ args_num_edges = None /\ num_edges = 0
    /\ seed = None /\ custom_assignment = <<>> /\ global_graph = FALSE
    /\ rng = 0 /\ drawn = FALSE /\ edges_set = <<>>
    /\ vertex_assignment = <<>> /\ partitioned = NoBuckets
    /\ dir_created = FALSE /\ files = <<>> /\ global_file = None
    /\ results = <<>> /\ other_draws = 0

Idle == IdleButEdges /\ edges = <<>>

\* lines of an edge list file: three edges, the first edge again in another
\* spelling (leading blank, tab, a third token), a comment, a blank line,
\* a line with one token, a line whose second token is no integer
SampleLines ==
    { <<"0", " ", "1", "\n">>,
      <<"1", " ", "2", "\n">>,
      <<"2", " ", "0", "\n">>,
      <<" ", "0", "\t", "1", " ", "9", "\n">>,
      <<"#", "3", " ", "4", "\n">>,
      <<"\n">>,
      <<"5", "\n">>,
      <<"2", " ", "x", "\n">> }

MaxLines == 3

\* "0 1\n1 2\n2 0\n"
TriangleFile ==
    <<"0", " ", "1", "\n", "1", " ", "2", "\n", "2", " ", "0", "\n">>

InputFiles ==
    { Concat(ls) : ls \in SeqsUpTo(SampleLines, MaxLines) } \cup {TriangleFile}

MaxGraphSize == 2

\* configuration documents: a document that is no mapping, and mappings with
\* or without foo, graph_config and worker_config, the latter null, a string
\* or a mapping with or without num_workers, vertex_assignment and x
WorkerConfigs ==
    { YNull, YStr(<<"b">>) } \cup
    { YMap([k \in ks |->
              IF k = K_num_workers THEN YInt(7)
              ELSE IF k = K_vertex_assignment
                   THEN YMap([j \in {<<"0">>} |-> YStr(WorkerLabel(5))])
                   ELSE YStr(<<"y">>)]) :
        ks \in SUBSET {K_num_workers, K_vertex_assignment, K_extra} }

ConfigDocs ==
    { YNull, YStr(<<"b">>) } \cup
    { YMap([k \in ks |->
              IF k = K_foo THEN YStr(<<"b", "a", "r">>)
              ELSE YMap([j \in {<<"n", "v">>} |-> YInt(3)])]) :
        ks \in SUBSET {K_foo, K_graph_config} } \cup
    { YMap([k \in ks \cup {K_worker_config} |->
              IF k = K_foo THEN YStr(<<"b", "a", "r">>)
              ELSE IF k = K_graph_config
                   THEN YMap([j \in {<<"n", "v">>} |-> YInt(3)])
                   ELSE wc]) :
        ks \in SUBSET {K_foo, K_graph_config}, wc \in WorkerConfigs }

\* partition_existing_graph.py run on an edge list file, without --graph-size
InitPartition ==
    /\ Idle
    /\ pc = "part_start"
    /\ hash_order \in {"insertion", "reversed"}
    /\ input_file \in InputFiles
    /\ num_workers \in WorkerCounts
    /\ graph_size = None
    /\ loaded = EmptyLoad
    /\ \/ config_file = "none" /\ config_in = YNull
       \/ config_file = "exists"
          /\ config_in = YMap([k \in {K_foo} |-> YStr(<<"b">>)])
    /\ config_doc = config_in

SpecPartition == InitPartition /\ [][NextPartition]_vars

\* partition_existing_graph.py run with --config, the document existing or not
InitPublish ==
    /\ Idle
    /\ pc = "part_start"
    /\ hash_order = "insertion"
    /\ input_file \in {<<>>, TriangleFile}
    /\ num_workers \in WorkerCounts
    /\ graph_size \in {None} \cup { Some(n) : n \in 0..MaxGraphSize }
    /\ loaded = EmptyLoad
    /\ config_file \in {"missing", "exists"}
    /\ config_in \in ConfigDocs
    /\ config_doc = config_in

SpecPublish == InitPublish /\ [][NextPartition]_vars

----------------------------------------------------------------------------
(* Round trip: write_edge_file, then load_graph_from_file on what it wrote *)

RtVertices == {0 - 2, 0, 13}
MaxWritten == 3

InitRoundTrip ==
    /\ IdleButEdges
    /\ pc = "rt_start"
    /\ hash_order \in {"insertion", "reversed"}
    /\ edges \in SeqsUpTo(RtVertices \X RtVertices, MaxWritten)
    /\ input_file = <<>> /\ num_workers = 1 /\ graph_size = None
    /\ loaded = EmptyLoad
    /\ config_file = "none" /\ config_in = YNull /\ config_doc = YNull

\* write_edge_file(path, edges)
RtWrite ==
    /\ pc = "rt_start"
    /\ input_file' = write_edge_file(edges)
    /\ pc' = "rt_written"
    /\ UNCHANGED <<err, hash_order, num_vertices, args_num_edges, num_edges,
                   num_workers, seed, custom_assignment, global_graph, rng,
                   drawn, edges_set, edges, vertex_assignment, partitioned,
                   dir_created, files, global_file, results, other_draws,
                   graph_size, loaded, config_file, config_in, config_doc>>

\* load_graph_from_file(path)
RtLoad ==
    /\ pc = "rt_written"
    /\ loaded' = load_graph_from_file(input_file)
    /\ pc' = "rt_loaded"
    /\ UNCHANGED <<err, hash_order, num_vertices, args_num_edges, num_edges,
                   num_workers, seed, custom_assignment, global_graph, rng,
                   drawn, edges_set, edges, vertex_assignment, partitioned,
                   dir_created, files, global_file, results, other_draws,
                   input_file, graph_size, config_file, config_in, config_doc>>

NextRoundTrip == RtWrite \/ RtLoad

SpecRoundTrip == InitRoundTrip /\ [][NextRoundTrip]_vars

----------------------------------------------------------------------------
(* Inputs of the generation path *)

MaxVertices == 4
MaxEdges == 7
MaxSeed == 1
VertexCounts == (0 - 1)..MaxVertices
EdgeCounts == (0 - 1)..MaxEdges
Seeds == {None} \cup { Some(n) : n \in 0..MaxSeed }

Label(text) == YStr(text)
L_w1 == <<"w", "-", "1">>

\* worker_config.vertex_assignment in a run of main: absent, an int key, the
\* same vertex as a str key, a label that is no string
MainOverrides ==
    { NoEntries,
      [k \in {IntKey(0)} |-> Label(L_w1)],
      [k \in {StrKey(<<"0">>)} |-> Label(L_w1)],
      [k \in {IntKey(1)} |-> YInt(0)] }

InitMain ==
    /\ pc = "main_start" /\ err = "none"
    /\ hash_order = "insertion"
    /\ num_vertices \in VertexCounts
    /\ args_num_edges \in {None} \cup { Some(n) : n \in EdgeCounts }
    /\ num_edges = 0
    /\ num_workers \in WorkerCounts
    /\ \/ seed = None /\ rng \in 0..(RngStates - 1)
       \/ seed \in Seeds \ {None} /\ rng = 0
    /\ custom_assignment \in MainOverrides
    /\ global_graph \in BOOLEAN
    /\ drawn = FALSE /\ edges_set = <<>> /\ edges = <<>>
    /\ vertex_assignment = NoEntries /\ partitioned = NoBuckets
    /\ dir_created = FALSE /\ files = <<>> /\ global_file = None
    /\ results = <<>> /\ other_draws = 0
    /\ input_file = <<>> /\ graph_size = None /\ loaded = EmptyLoad
    /\ config_file = "none" /\ config_in = YNull /\ config_doc = YNull

SpecMain == InitMain /\ [][NextMain]_vars

----------------------------------------------------------------------------
(* generate_random_graph called several times in one process with the same *)
(* arguments, the rest of the process drawing from the generator between   *)
(* the calls                                                               *)

MaxCalls == 2
MaxOtherDraws == 1

InitGenerate ==
    /\ pc = "idle" /\ err = "none"
    /\ hash_order \in {"insertion", "reversed"}
    /\ num_vertices \in VertexCounts
    /\ num_edges \in EdgeCounts
    /\ seed \in Seeds
    /\ rng \in 0..(RngStates - 1)
    /\ args_num_edges = None /\ num_workers = 1
    /\ custom_assignment = NoEntries /\ global_graph = FALSE
    /\ drawn = FALSE /\ edges_set = <<>> /\ edges = <<>>
    /\ vertex_assignment = NoEntries /\ partitioned = NoBuckets
    /\ dir_created = FALSE /\ files = <<>> /\ global_file = None
    /\ results = <<>> /\ other_draws = 0
    /\ input_file = <<>> /\ graph_size = None /\ loaded = EmptyLoad
    /\ config_file = "none" /\ config_in = YNull /\ config_doc = YNull

callFrame == <<hash_order, num_vertices, args_num_edges, num_edges, num_workers,
               seed, custom_assignment, global_graph, vertex_assignment,
               partitioned, dir_created, files, global_file, input_file,
               graph_size, loaded, config_file, config_in, config_doc>>

\* generate_random_graph(num_vertices, num_edges, seed) is called
Call ==
    /\ pc = "idle"
    /\ Len(results) < MaxCalls
    /\ pc' = "gen_start"
    /\ UNCHANGED <<err, rng, drawn, edges_set, edges, results, other_draws>>
    /\ UNCHANGED callFrame

\* the call returns its list or raises; the caller keeps what it got
Return ==
    /\ pc \in {"gen_returned", "gen_raised"}
    /\ results' = Append(results, [returned |-> pc = "gen_returned",
                                    err |-> err,
                                    set |-> Range(edges_set),
                                    list |-> edges])
    /\ pc' = "idle"
    /\ err' = "none"
    /\ UNCHANGED <<rng, drawn, edges_set, edges, other_draws>>
    /\ UNCHANGED callFrame

\* some other code of the process draws a random number
OtherDraw ==
    /\ pc = "idle"
    /\ other_draws < MaxOtherDraws
    /\ rng' = NextRng(rng)
    /\ other_draws' = other_draws + 1
    /\ UNCHANGED <<pc, err, drawn, edges_set, edges, results>>
    /\ UNCHANGED callFrame

NextGenerate == Call \/ GenStart \/ GenDraw \/ GenExpand \/ Return \/ OtherDraw

SpecGenerate == InitGenerate /\ [][NextGenerate]_vars

----------------------------------------------------------------------------
(* assign_vertices called on overrides read from a configuration document *)

MaxLabelLen == 3
LabelChars == {"w", "-", "1", "5", " "}
OverrideKeys == {IntKey(0), IntKey(1), IntKey(7), StrKey(<<"0">>)}
OverrideLabels ==
    { Label(t) : t \in SeqsUpTo(LabelChars, MaxLabelLen) } \cup {YInt(1), YNull}

Overrides ==
    { NoEntries } \cup
    { [k \in {key} |-> l] : key \in OverrideKeys, l \in OverrideLabels } \cup
    { [k \in {IntKey(0), IntKey(1)} |-> IF k = IntKey(0) THEN l0 ELSE l1] :
        l0 \in {Label(L_w1), Label(<<"w", "-", "5">>)},
        l1 \in {Label(<<"0">>), Label(<<"w", "-", "x">>)} }

InitResolve ==
    /\ pc = "resolve_start" /\ err = "none"
    /\ hash_order = "insertion"
    /\ num_vertices \in 0..MaxVertices
    /\ num_workers \in WorkerCounts
    /\ custom_assignment \in Overrides
    /\ args_num_edges = None /\ num_edges = 0 /\ seed = None /\ rng = 0
    /\ global_graph = FALSE
    /\ drawn = FALSE /\ edges_set = <<>> /\ edges = <<>>
    /\ vertex_assignment = NoEntries /\ partitioned = NoBuckets
    /\ dir_created = FALSE /\ files = <<>> /\ global_file = None
    /\ results = <<>> /\ other_draws = 0
    /\ input_file = <<>> /\ graph_size = None /\ loaded = EmptyLoad
    /\ config_file = "none" /\ config_in = YNull /\ config_doc = YNull

\* assign_vertices(num_vertices, num_workers, custom_assignment)
Resolve ==
    /\ pc = "resolve_start"
    /\ LET r == assign_vertices(num_vertices, num_workers, custom_assignment)
       IN  /\ err' = r.err
           /\ vertex_assignment' = r.assignment
           /\ pc' = IF r.err = "none" THEN "resolved" ELSE "crashed"
    /\ UNCHANGED <<hash_order, num_vertices, args_num_edges, num_edges,
                   num_workers, seed, custom_assignment, global_graph, rng,
                   drawn, edges_set, edges, partitioned, dir_created, files,
                   global_file, results, other_draws, input_file, graph_size,
                   loaded, config_file, config_in, config_doc>>

NextResolve == Resolve

SpecResolve == InitResolve /\ [][NextResolve]_vars

----------------------------------------------------------------------------
(* Claims on the re-partition path and on the round trip *)

\* the ordered edges a file of "u v" lines holds, in order
LineEdge(raw) == <<PyInt(Split(raw)[1]).val, PyInt(Split(raw)[2]).val>>
FileEdges(content) ==
    LET ls == FileLines(content, <<>>)
    IN  [ i \in 1..Len(ls) |-> LineEdge(ls[i]) ]

\* the input lines that hold two integers, as pairs, in order
IsEdgeLine(raw) ==
    LET line == Strip(raw)
    IN  /\ line # <<>> /\ line[1] # "#"
        /\ Len(Split(line)) >= 2
        /\ PyInt(Split(line)[1]).ok /\ PyInt(Split(line)[2]).ok
ParsedEdges(content) ==
    LET ls == SelectSeq(FileLines(content, <<>>), IsEdgeLine)
    IN  [ i \in 1..Len(ls) |-> LineEdge(ls[i]) ]

Mirror(e) == <<e[2], e[1]>>
AllWritten == Concat([ k \in 1..Len(files) |-> FileEdges(files[k]) ])
WriteLoopDone == num_workers >= 1 /\ Len(files) = num_workers
HasRepeat(s) == \E i, j \in 1..Len(s) : i < j /\ s[i] = s[j]

\* every written edge is in the file of the worker its source vertex maps to
PlacedBySource ==
    \A k \in 1..Len(files) :
        \A e \in Range(FileEdges(files[k])) : PyMod(e[1], num_workers) = k - 1

\* C2 as stated: the written multiset is the multiset of parsed lines, each
\* expanded to both directions, repeated lines kept, and each edge is in the
\* file of its source vertex modulo the worker count.
C2_AsStated ==
    (pc \in {"part_publish", "done", "crashed"} /\ WriteLoopDone) =>
        LET P == ParsedEdges(input_file)
        IN  /\ \A e \in Range(AllWritten) \cup Range(P) \cup { Mirror(x) : x \in Range(P) } :
                   Count(e, AllWritten) = Count(e, P) + Count(Mirror(e), P)
            /\ PlacedBySource

\* C2 amended: the written multiset is the expansion to both directions of
\* the set of distinct parsed pairs (a pair on several lines counts once),
\* and each edge is in the file of its source vertex modulo the worker count.
C2_DistinctPairsExpanded ==
    (pc \in {"part_publish", "done", "crashed"} /\ WriteLoopDone) =>
        LET P == Range(ParsedEdges(input_file))
        IN  /\ \A e \in Range(AllWritten) \cup P \cup { Mirror(x) : x \in P } :
                   Count(e, AllWritten) =
                       (IF e \in P THEN 1 ELSE 0) + (IF Mirror(e) \in P THEN 1 ELSE 0)
            /\ PlacedBySource

\* a finished write loop over several workers whose input repeated an edge
C2_Witness ==
    /\ pc = "done" /\ WriteLoopDone /\ num_workers >= 2
    /\ HasRepeat(ParsedEdges(input_file))
    /\ Len(AllWritten) = 2

Triangle == input_file = TriangleFile /\ num_workers = 3 /\ pc = "done"

\* C10 as stated: worker 0 holds (0,1) and (2,0), worker 1 holds (1,2),
\* worker 2 holds no forward edge but the mirror (0,2); (1,0) and (2,1) are
\* written as well.
C10_AsStated ==
    Triangle =>
        /\ <<0, 1>> \in Range(FileEdges(files[1]))
        /\ <<2, 0>> \in Range(FileEdges(files[1]))
        /\ <<1, 2>> \in Range(FileEdges(files[2]))
        /\ Range(FileEdges(files[3])) \cap {<<0, 1>>, <<1, 2>>, <<2, 0>>} = {}
        /\ <<0, 2>> \in Range(FileEdges(files[3]))
        /\ {<<1, 0>>, <<2, 1>>} \subseteq Range(AllWritten)

\* C10 amended: each forward edge and each mirror is in the file of its own
\* source vertex: 1.txt holds exactly (0,1) and (0,2), 2.txt exactly (1,2)
\* and (1,0), 3.txt exactly (2,0) and (2,1), each once.
C10_TriangleBySource ==
    Triangle =>
        /\ Len(files) = 3
        /\ \A k \in 1..3 : Len(FileEdges(files[k])) = 2
        /\ Range(FileEdges(files[1])) = {<<0, 1>>, <<0, 2>>}
        /\ Range(FileEdges(files[2])) = {<<1, 2>>, <<1, 0>>}
        /\ Range(FileEdges(files[3])) = {<<2, 0>>, <<2, 1>>}

C10_Witness == Triangle /\ Len(files) = 3 /\ hash_order = "reversed"

\* C4 (re-partition call site): with a worker count <= 0 no edge is placed
\* in a bucket, no assignment is produced and the run does not complete.
C4_NonPositiveWorkersFail ==
    num_workers <= 0 =>
        /\ partitioned = NoBuckets
        /\ vertex_assignment = <<>>
        /\ pc # "done"

\* C8: at every point of a run with an existing configuration document,
\* every top-level key other than worker_config, and every key of
\* worker_config other than vertex_assignment and num_workers, is present
\* with the value it had, and no other key has appeared; once published,
\* worker_config holds the new assignment and the worker count.  A document
\* that does not exist or is no mapping stays as it is.
C8_OtherKeysKept ==
    IF config_file # "exists" \/ config_in.t # "map" THEN config_doc = config_in
    ELSE /\ config_doc.t = "map"
         /\ (DOMAIN config_doc.m) \ {K_worker_config}
                = (DOMAIN config_in.m) \ {K_worker_config}
         /\ \A k \in (DOMAIN config_in.m) \ {K_worker_config} :
                config_doc.m[k] = config_in.m[k]
         /\ K_worker_config \in DOMAIN config_in.m
                => K_worker_config \in DOMAIN config_doc.m
         /\ K_worker_config \in DOMAIN config_doc.m =>
              LET new == config_doc.m[K_worker_config]
                  old == IF K_worker_config \in DOMAIN config_in.m
                         THEN config_in.m[K_worker_config] ELSE YMap(NoEntries)
                  own == {K_vertex_assignment, K_num_workers}
              IN  IF old.t # "map" THEN new = old
                  ELSE /\ new.t = "map"
                       /\ (DOMAIN old.m) \ own \subseteq DOMAIN new.m
                       /\ (DOMAIN new.m) \ own \subseteq DOMAIN old.m
                       /\ \A k \in (DOMAIN old.m) \ own : new.m[k] = old.m[k]
         /\ pc = "done" =>
              /\ K_worker_config \in DOMAIN config_doc.m
              /\ config_doc.m[K_worker_config].m[K_num_workers] = YInt(num_workers)
              /\ config_doc.m[K_worker_config].m[K_vertex_assignment]
                     = YMap(vertex_assignment)

\* a published document that had foo, and a worker_config with a key of its
\* own and an older assignment
C8_Witness ==
    /\ pc = "done" /\ config_file = "exists" /\ config_doc # config_in
    /\ config_in.t = "map"
    /\ K_foo \in DOMAIN config_doc.m
    /\ K_worker_config \in DOMAIN config_in.m
    /\ config_in.m[K_worker_config].t = "map"
    /\ K_extra \in DOMAIN config_in.m[K_worker_config].m
    /\ K_vertex_assignment \in DOMAIN config_in.m[K_worker_config].m
    /\ graph_size = Some(2) /\ num_workers = 2

\* C7 as stated: the loaded graph gives back the written sequence of edges
C7_AsStated == pc = "rt_loaded" => AdjEdges(loaded) = edges

\* C7 amended: the loaded graph holds each written edge once, whatever the
\* number of times and the order it was written in, and nothing else;
\* total_edges is the number of written lines and the inferred size is one
\* more than the largest vertex written (0 for an empty file).
C7_SameDistinctEdges ==
    pc = "rt_loaded" =>
        /\ Range(AdjEdges(loaded)) = Range(edges)
        /\ ~HasRepeat(AdjEdges(loaded))
        /\ loaded.total_edges = Len(edges)
        /\ \A i \in 1..Len(edges) :
               loaded.size > edges[i][1] /\ loaded.size > edges[i][2]
        /\ loaded.size = 0 \/ \E i \in 1..Len(edges) : loaded.size - 1 \in Range(edges[i])

\* a loaded file in which an edge was written twice, with a negative and a
\* two-digit vertex
C7_Witness ==
    /\ pc = "rt_loaded" /\ HasRepeat(edges)
    /\ <<0 - 2, 13>> \in Range(edges)
    /\ Len(AdjEdges(loaded)) = 2

----------------------------------------------------------------------------
(* Claims on the generation path *)

\* C1: after a successful run with N >= 1 workers exactly 1.txt..N.txt are
\* written; file k holds, in the order of the generated list, the edges whose
\* source vertex is assigned to worker k-1; every worker has a bucket, and
\* every edge is written as often as the generated list holds it.
C1_FilesHoldOwnedEdges ==
    (pc = "done" /\ num_workers >= 1) =>
        /\ Len(files) = num_workers
        /\ DOMAIN partitioned = 0..(num_workers - 1)
        /\ \A k \in 1..num_workers :
               LET Owned(e) == vertex_assignment[IntKey(e[1])] = k - 1
               IN  /\ FileEdges(files[k]) = SelectSeq(edges, Owned)
                   /\ partitioned[k - 1] = SelectSeq(edges, Owned)
        /\ Len(AllWritten) = Len(edges)
        /\ \A e \in Range(edges) : Count(e, AllWritten) = Count(e, edges)

\* a finished run over two workers, both files filled, vertex 0 moved to
\* worker 1 by an override
C1_Witness ==
    /\ pc = "done" /\ num_workers = 2 /\ Len(edges) >= 4
    /\ files[1] # <<>> /\ files[2] # <<>>
    /\ IntKey(0) \in DOMAIN custom_assignment
    /\ vertex_assignment[IntKey(0)] = 1
    /\ \E i \in 1..Len(edges) : edges[i][1] = 0

\* the worker C3 gives vertex v: the index of a valid override when the
\* overrides hold one for v (as the int v or as the string of v), else
\* v modulo the worker count
ClaimedWorker(v) ==
    LET given == (DOMAIN custom_assignment) \cap {IntKey(v), StrKey(IntStr(v))}
        valid == { n \in 0..(num_workers - 1) :
                     \E k \in given :
                        /\ custom_assignment[k].t = "str"
                        /\ PyInt(LastDashPart(custom_assignment[k].s)).ok
                        /\ PyInt(LastDashPart(custom_assignment[k].s)).val = n }
    IN  IF valid # {} THEN CHOOSE n \in valid : TRUE ELSE v % num_workers

\* C3 as stated: with a worker count >= 1 resolve never fails, is total on
\* [0, vertexCount) with values in [0, workerCount), and gives every vertex
\* its valid override, else the vertex modulo the worker count.
C3_AsStated ==
    (pc # "resolve_start" /\ num_workers >= 1) =>
        /\ err = "none"
        /\ \A v \in 0..(num_vertices - 1) :
               /\ IntKey(v) \in DOMAIN vertex_assignment
               /\ vertex_assignment[IntKey(v)] \in 0..(num_workers - 1)
               /\ vertex_assignment[IntKey(v)] = ClaimedWorker(v)

\* C5: when generate_random_graph returns for 0 <= edgeCount <= the
\* capacity, the set holds edgeCount distinct pairs (a,b), 0 <= a < b <
\* vertexCount, and the list holds each pair once, its reverse once, and
\* nothing else.
C5_ExactlyEdgeCountCanonicalPairs ==
    (/\ pc = "gen_returned"
     /\ 0 <= num_edges
     /\ num_edges <= (num_vertices * (num_vertices - 1)) \div 2) =>
        LET S == Range(edges_set)
        IN  /\ Cardinality(S) = num_edges
            /\ Len(edges_set) = num_edges
            /\ \A p \in S : 0 <= p[1] /\ p[1] < p[2] /\ p[2] < num_vertices
            /\ Len(edges) = 2 * num_edges
            /\ \A p \in S : Count(p, edges) = 1 /\ Count(Mirror(p), edges) = 1
            /\ Range(edges) = S \cup { Mirror(p) : p \in S }

\* a returned call that had to fill the whole capacity of three vertices
C5_Witness ==
    /\ pc = "gen_returned" /\ num_vertices = 3 /\ num_edges = 3 /\ drawn
    /\ hash_order = "reversed" /\ Len(edges) = 6

\* C6: the capacity error is raised exactly when edgeCount exceeds
\* vertexCount*(vertexCount-1)/2, before any draw, and a run of main that
\* hits it has created no directory and written no worker or global file.
C6_CapacityErrorBeforeAnyOutput ==
    /\ pc \notin {"main_start", "gen_start"} =>
           (err = "CapacityError"
              <=> num_edges > (num_vertices * (num_vertices - 1)) \div 2)
    /\ err = "CapacityError" =>
           /\ pc = "gen_raised"
           /\ ~drawn /\ edges_set = <<>> /\ edges = <<>>
           /\ ~dir_created /\ files = <<>> /\ global_file = None

\* a run that asked for four edges over three vertices, two workers and a
\* global graph file
C6_Witness ==
    /\ err = "CapacityError" /\ num_vertices = 3 /\ num_edges = 4
    /\ num_workers = 2 /\ global_graph

\* C9: with a seed, every call with the same arguments ends the same way:
\* the same set and the same list, whatever was drawn before it.
C9_SeededCallsAgree ==
    seed # None =>
        \A i, j \in 1..Len(results) : results[i] = results[j]

\* two seeded calls that returned edges, with a draw by other code and an
\* initial generator state other than the seeded one
C9_Witness ==
    /\ seed # None /\ Len(results) = 2 /\ other_draws = 1
    /\ results[1].returned /\ Len(results[2].list) >= 4

====
